---- MODULE Spec2Model ----
(***************************************************************************)
(* A model of lakeFS-hooks: the Path utility and the format predicates     *)
(* (lakefs/path.py, lakefs/formats.py), the paginated API client           *)
(* (lakefs/client.py), the two read-only pyarrow filesystem adapters       *)
(* (lakefs/client.py, lakefs/fs.py) and the webhook handlers (server.py).  *)
(*                                                                         *)
(* Python strings are TLA+ strings; a character is a string of length 1.   *)
(* Python's None is -1 where an amount is optional, and the record         *)
(* [kind |-> "None"] where an operation returns nothing.                   *)
(***************************************************************************)
EXTENDS Integers, Sequences, FiniteSets, TLC

VARIABLES
    call,       \* the operation last invoked, with its arguments
    ret,        \* what that operation returned
    gen,        \* the frame of the running generator (Client.diff, diff_branch, list)
    yielded,    \* the items the generator has yielded so far
    requests,   \* the requests issued to the remote store so far
    store,      \* the content of the remote store at the adapter's ref
    fs,         \* the adapter's state: implementation, client, repository, ref
    observed    \* the first read made through the adapter, with its result

vars == <<call, ret, gen, yielded, requests, store, fs, observed>>

\* max_amount: int = None
None == -1

\* what a Python function returns when it ends without a return value
ReturnsNone == [kind |-> "None"]

----------------------------------------------------------------------------
(* Bounds of the model.                                                    *)

\* longest path string drawn for the Path utility
MaxLen == 3

\* the characters path strings are drawn from
Alphabet == {"a", "A", ".", "/", "_"}

----------------------------------------------------------------------------
(* Python's str methods, as the code uses them.                            *)

Min(a, b) == IF a < b THEN a ELSE b

Max(S) == CHOOSE m \in S : \A x \in S : x <= m

startswith(s, p) == Len(p) <= Len(s) /\ SubSeq(s, 1, Len(p)) = p

endswith(s, p) == Len(p) <= Len(s) /\ SubSeq(s, Len(s) - Len(p) + 1, Len(s)) = p

\* str.rpartition(sep): split at the last occurrence of sep; when sep does
\* not occur, the result is ('', '', s).
rpartition(s, sep) ==
    LET at == {i \in 1..(Len(s) - Len(sep) + 1) : SubSeq(s, i, i + Len(sep) - 1) = sep}
    IN  IF at = {}
        THEN <<"", "", s>>
        ELSE LET i == Max(at)
             IN  <<SubSeq(s, 1, i - 1), sep, SubSeq(s, i + Len(sep), Len(s))>>

UpperCase == "ABCDEFGHIJKLMNOPQRSTUVWXYZ"

LowerCase == "abcdefghijklmnopqrstuvwxyz"

lower_char(c) ==
    LET at == {i \in 1..Len(UpperCase) : SubSeq(UpperCase, i, i) = c}
    IN  IF at = {} THEN c ELSE LET i == CHOOSE j \in at : TRUE IN SubSeq(LowerCase, i, i)

RECURSIVE lower(_)
lower(s) == IF s = "" THEN "" ELSE lower_char(SubSeq(s, 1, 1)) \o lower(SubSeq(s, 2, Len(s)))

RECURSIVE Strings(_)
Strings(n) ==
    IF n = 0 THEN {""}
    ELSE LET S == Strings(n - 1) IN S \cup {s \o c : s \in S, c \in Alphabet}

----------------------------------------------------------------------------
(* lakefs/path.py                                                          *)

DEFAULT_PATH_SEPARATOR == "/"

DEFAULT_EXTENSION_SEPARATOR == "."

Path(v) == [path |-> v, separator |-> DEFAULT_PATH_SEPARATOR]

base_name(p) ==
    LET r == rpartition(p.path, p.separator)
    IN  IF r[2] = p.separator THEN r[3] ELSE ""

dir_name(p) ==
    LET r == rpartition(p.path, p.separator)
    IN  IF r[2] = p.separator THEN r[1] ELSE ""

extension(p) ==
    LET r == rpartition(base_name(p), DEFAULT_EXTENSION_SEPARATOR)
    IN  IF r[2] = DEFAULT_EXTENSION_SEPARATOR THEN r[3] ELSE ""

----------------------------------------------------------------------------
(* lakefs/formats.py                                                       *)

is_delta_lake(p) ==
    /\ endswith(dir_name(p), "_delta_log")
    /\ extension(p) \in {"json", "parquet"}

has_extension(ext, p) == lower(extension(p)) = ext

is_hadoop_hidden(p) == startswith(base_name(p), "_")

----------------------------------------------------------------------------
(* The Path utility on its own: a path string is drawn and its properties  *)
(* are read.                                                               *)

NoCall == [op |-> "none"]

Refs == {"source_ref", "last_commit"}

\* a store without objects and without differences
EmptyStore == [objects |-> [r \in Refs |-> {}], changes |-> <<>>]

NoAdapter == [impl |-> "none"]

IdleRest ==
    /\ gen = [pc |-> "none"]
    /\ yielded = <<>>
    /\ requests = <<>>
    /\ store = EmptyStore
    /\ fs = NoAdapter
    /\ observed = NoCall

InitPath ==
    /\ call = NoCall
    /\ ret = ReturnsNone
    /\ IdleRest

PathProperties ==
    /\ call = NoCall
    /\ \E v \in Strings(MaxLen) :
        /\ call' = [op |-> "Path", v |-> v]
        /\ ret' = [kind      |-> "Path",
                   base_name |-> base_name(Path(v)),
                   dir_name  |-> dir_name(Path(v)),
                   extension |-> extension(Path(v))]
    /\ UNCHANGED <<gen, yielded, requests, store, fs, observed>>

NextPath == PathProperties

SpecPath == InitPath /\ [][NextPath]_vars

\* C5: a path string without a separator has an empty dir_name, is its own
\* base_name, and its extension is what follows its last '.', or is empty.
HasSeparator(v) == \E i \in 1..Len(v) : SubSeq(v, i, i) = DEFAULT_PATH_SEPARATOR

C5_NoSeparator ==
    (call.op = "Path" /\ ~HasSeparator(call.v)) =>
        /\ ret.dir_name = ""
        /\ ret.base_name = call.v
        /\ ret.extension = (LET r == rpartition(call.v, ".")
                            IN  IF r[2] = "." THEN r[3] ELSE "")

----------------------------------------------------------------------------
(* lakefs/client.py: the paginated iterators Client.diff,                  *)
(* Client.diff_branch and Client.list, and the same loop in                *)
(* lakefs/fs.py's LakeFSFileSystem._list_entries.                          *)
(*                                                                         *)
(* A generator is a frame; the consumer's pulls move it between its        *)
(* suspension points:                                                      *)
(*   "request"  about to call the API for a page                           *)
(*   "iter"     at the head of the for loop over the page's results        *)
(*   "yielded"  suspended at the yield, the item handed to the consumer    *)
(*   "done"     returned                                                   *)

PREFETCH_CURSOR_SIZE == 1000

LISTING_PREFETCH_SIZE == 1000

DiffOps == {"diff", "diff_branch"}

ListOps == {"list", "_list_entries"}

\* lines 47-54, 72-75, 91-95 of client.py and 141-143 of fs.py: the frame
\* as the first pull finds it before the loop.
NewGen(op, ref, prefix, delimiter, prefetch_amount, max_amount) ==
    [op              |-> op,
     ref             |-> ref,
     prefix          |-> prefix,
     delimiter       |-> delimiter,
     max_amount      |-> max_amount,
     prefetch_amount |-> IF op = "diff_branch" /\ max_amount # None
                         THEN Min(prefetch_amount, max_amount)
                         ELSE prefetch_amount,
     after           |-> IF op \in DiffOps THEN prefix ELSE "",
     amount          |-> 0,
     results         |-> <<>>,
     has_more        |-> FALSE,
     next_offset     |-> "",
     idx             |-> 0,
     pc              |-> "request"]

diff(from_ref, prefix, prefetch_amount) ==
    NewGen("diff", from_ref, prefix, "", prefetch_amount, None)

diff_branch(branch, prefix, prefetch_amount, max_amount) ==
    NewGen("diff_branch", branch, prefix, "", prefetch_amount, max_amount)

list(ref, path, delimiter, max_amount) ==
    NewGen("list", ref, path, delimiter, PREFETCH_CURSOR_SIZE, max_amount)

\* the arguments of the API call the frame is about to make
RequestOf(g) ==
    [api       |-> CASE g.op = "diff"        -> "diff_refs"
                     [] g.op = "diff_branch" -> "diff_branch"
                     [] OTHER                -> "list_objects",
     ref       |-> g.ref,
     prefix    |-> IF g.op \in ListOps THEN g.prefix ELSE "",
     after     |-> g.after,
     delimiter |-> g.delimiter,
     amount    |-> g.prefetch_amount]

\* the response arrives: the for loop starts on its results
Receive(g, response) ==
    [g EXCEPT !.results     = response.results,
              !.has_more    = response.has_more,
              !.next_offset = response.next_offset,
              !.idx         = 0,
              !.pc          = "iter"]

\* ForLoop without the test of lines 62 and 84: every result is yielded
ForLoop_NoPrefixTest(g) ==
    IF g.idx < Len(g.results)
    THEN [g EXCEPT !.idx = g.idx + 1, !.pc = "yielded"]
    ELSE IF ~g.has_more
         THEN [g EXCEPT !.pc = "done"]
         ELSE [g EXCEPT !.after = g.next_offset, !.pc = "request"]

\* ForLoop without the test of has_more (lines 68, 87, 109): after the last result
\* of a page the next page is always asked for
ForLoop_IgnoresHasMore(g) ==
    IF g.idx < Len(g.results)
    THEN IF g.op \in DiffOps /\ ~startswith(g.results[g.idx + 1].path, g.prefix)
         THEN [g EXCEPT !.pc = "done"]
         ELSE [g EXCEPT !.idx = g.idx + 1, !.pc = "yielded"]
    ELSE [g EXCEPT !.after = g.next_offset, !.pc = "request"]

\* the head of the for loop: the next result is yielded, or ends a diff when
\* its path is not under the prefix; after the last result the pagination
\* decides between returning and the next page.
ForLoop(g) ==
    IF g.idx < Len(g.results)
    THEN IF g.op \in DiffOps /\ ~startswith(g.results[g.idx + 1].path, g.prefix)
         THEN [g EXCEPT !.pc = "done"]
         ELSE [g EXCEPT !.idx = g.idx + 1, !.pc = "yielded"]
    ELSE IF ~g.has_more
         THEN [g EXCEPT !.pc = "done"]
         ELSE [g EXCEPT !.after = g.next_offset, !.pc = "request"]

\* the consumer pulls again: the code after the yield runs
AfterYield(g) ==
    IF g.op = "diff"
    THEN [g EXCEPT !.pc = "iter"]
    ELSE IF g.max_amount # None /\ g.amount + 1 >= g.max_amount
         THEN [g EXCEPT !.amount = g.amount + 1, !.pc = "done"]
         ELSE [g EXCEPT !.amount = g.amount + 1, !.pc = "iter"]

\* the item a frame suspended at its yield has handed over
Current(g) == g.results[g.idx]

----------------------------------------------------------------------------
(* The remote store as the client sees it: a black box that answers every  *)
(* request with a page of results and a pagination record.                 *)

\* longest page the store returns
MaxPage == 2

\* requests one iteration may issue
MaxRequests == 2

\* largest max_amount a caller passes
MaxAmount == 2

RECURSIVE SeqsUpTo(_, _)
SeqsUpTo(S, n) ==
    IF n = 0 THEN {<<>>}
    ELSE LET T == SeqsUpTo(S, n - 1) IN T \cup {Append(t, x) : t \in T, x \in S}

Prefixes == {"", "a/"}

Changes == {[path |-> "a/x", type |-> "added"], [path |-> "b/y", type |-> "added"]}

Entries == {[path |-> "a/x", path_type |-> "object", size_bytes |-> 1, mtime |-> 1],
            [path |-> "a/s/", path_type |-> "common_prefix", size_bytes |-> 0, mtime |-> 0]}

Paginations == {[has_more |-> FALSE, next_offset |-> ""],
                [has_more |-> TRUE, next_offset |-> "a/x"],
                [has_more |-> TRUE, next_offset |-> "b/y"]}

Responses(items) ==
    {[results |-> r, has_more |-> p.has_more, next_offset |-> p.next_offset] :
        r \in SeqsUpTo(items, MaxPage), p \in Paginations}

MaxAmounts == {None} \cup (0..MaxAmount)

Prefetches == {1, PREFETCH_CURSOR_SIZE}

Idle == gen.pc = "none"

Init ==
    /\ call = NoCall
    /\ ret = ReturnsNone
    /\ IdleRest

CallDiff ==
    /\ Idle
    /\ \E prefix \in Prefixes, prefetch \in Prefetches :
        /\ call' = [op |-> "diff", prefix |-> prefix, prefetch_amount |-> prefetch]
        /\ gen' = diff("source_ref", prefix, prefetch)
    /\ UNCHANGED <<ret, yielded, requests, store, fs, observed>>

CallDiffBranch ==
    /\ Idle
    /\ \E prefix \in Prefixes, prefetch \in Prefetches, max \in MaxAmounts :
        /\ call' = [op |-> "diff_branch", prefix |-> prefix,
                    prefetch_amount |-> prefetch, max_amount |-> max]
        /\ gen' = diff_branch("branch", prefix, prefetch, max)
    /\ UNCHANGED <<ret, yielded, requests, store, fs, observed>>

CallList ==
    /\ Idle
    /\ \E path \in Prefixes, delimiter \in {DEFAULT_PATH_SEPARATOR, ""}, max \in MaxAmounts :
        /\ call' = [op |-> "list", path |-> path, delimiter |-> delimiter,
                    max_amount |-> max]
        /\ gen' = list("source_ref", path, delimiter, max)
    /\ UNCHANGED <<ret, yielded, requests, store, fs, observed>>

\* the API call of the while loop and the store's answer to it
Request ==
    /\ gen.pc = "request"
    /\ Len(requests) < MaxRequests
    /\ requests' = Append(requests, RequestOf(gen))
    /\ \E response \in Responses(IF gen.op \in DiffOps THEN Changes ELSE Entries) :
        gen' = Receive(gen, response)
    /\ UNCHANGED <<call, ret, yielded, store, fs, observed>>

\* the for loop moves on: a yield, a return, or the next page
Step ==
    /\ gen.pc = "iter"
    /\ gen' = ForLoop(gen)
    /\ yielded' = IF gen'.pc = "yielded" THEN Append(yielded, Current(gen')) ELSE yielded
    /\ UNCHANGED <<call, ret, requests, store, fs, observed>>

\* the consumer pulls the generator suspended at its yield
Resume ==
    /\ gen.pc = "yielded"
    /\ gen' = AfterYield(gen)
    /\ UNCHANGED <<call, ret, yielded, requests, store, fs, observed>>

Next ==
    \/ CallDiff
    \/ CallDiffBranch
    \/ CallList
    \/ Request
    \/ Step
    \/ Resume

Spec == Init /\ [][Next]_vars

----------------------------------------------------------------------------
(* Claims about the iterators, for every page sequence the store may send. *)

\* the next result of the current page exists and is not under the prefix
OffPrefixNext(g) ==
    /\ g.pc \in {"iter", "yielded"}
    /\ g.idx < Len(g.results)
    /\ ~startswith(g.results[g.idx + 1].path, g.prefix)

YieldedUnderPrefix ==
    (gen.pc # "none" /\ gen.op \in DiffOps) =>
        \A i \in 1..Len(yielded) : startswith(yielded[i].path, gen.prefix)

\* C1: Client.diff and Client.diff_branch never yield a change whose path does not
\* start with the prefix, and once the next result of a page is not under the prefix
\* they yield nothing more and request nothing more, and return at the loop's head,
\* whatever has_more says.
C1_PrefixBounded ==
    /\ []YieldedUnderPrefix
    /\ [][(gen.pc # "none" /\ gen.op \in DiffOps /\ OffPrefixNext(gen)) =>
            /\ yielded' = yielded
            /\ requests' = requests
            /\ gen'.pc # "request"
            /\ (gen.pc = "iter" => gen'.pc = "done")]_vars

\* C1's case: a diff has yielded, then met a result outside the prefix on a page
\* that reported has_more, and returned with requests to spare.
C1_Witness ==
    /\ gen.pc = "done"
    /\ gen.op \in DiffOps
    /\ gen.has_more
    /\ gen.idx < Len(gen.results)
    /\ ~startswith(gen.results[gen.idx + 1].path, gen.prefix)
    /\ yielded # <<>>
    /\ Len(requests) < MaxRequests

\* C2: Client.list with max_amount = 0 yields no entries and issues no request.
C2_ListZero ==
    (gen.pc # "none" /\ gen.op = "list" /\ gen.max_amount = 0) =>
        /\ yielded = <<>>
        /\ requests = <<>>

\* C9: with a max_amount that is not None, Client.diff_branch yields at most
\* max_amount changes and asks every page for min(prefetch_amount, max_amount).
C9_MaxAmount ==
    (gen.pc # "none" /\ gen.op = "diff_branch" /\ gen.max_amount # None) =>
        /\ Len(yielded) <= gen.max_amount
        /\ \A i \in 1..Len(requests) :
              requests[i].amount = Min(call.prefetch_amount, call.max_amount)

\* the last Len(page) items yielded are the page
YieldedWhole(page) ==
    /\ Len(yielded) >= Len(page)
    /\ SubSeq(yielded, Len(yielded) - Len(page) + 1, Len(yielded)) = page

\* C13: the iterators request one page at a time, as the consumer pulls: a page after
\* the first is requested only when every result of the page before it has been
\* yielded and that page reported has_more, and with that page's next_offset as its
\* cursor; nothing is requested after a page without has_more, nor while the
\* generator is suspended at a yield.
C13_OnePageAtATime ==
    [][/\ Len(requests') <= Len(requests) + 1
       /\ (gen.pc = "yielded") => requests' = requests
       /\ (requests' # requests /\ requests # <<>>) =>
            /\ gen.has_more
            /\ YieldedWhole(gen.results)
            /\ requests'[Len(requests')].after = gen.next_offset]_vars

\* C13's case: a first page of two changes was yielded whole and reported has_more,
\* and the second page was requested after its next_offset
C13_Witness ==
    /\ gen.pc = "iter"
    /\ gen.op = "diff"
    /\ gen.idx = 0
    /\ Len(requests) = 2
    /\ requests[2].after = "b/y"
    /\ Len(yielded) = 2

----------------------------------------------------------------------------
(* The remote store with a content: objects per ref and a list of          *)
(* differences. It answers as the client's loops assume it does: results   *)
(* in ascending order of path, strictly after the cursor, at most a page   *)
(* of them, next_offset the last path of the page.                         *)

\* the characters of paths, in the order of their code points
CharOrder == "./0123456789ABCDEFGHIJKLMNOPQRSTUVWXYZ_abcdefghijklmnopqrstuvwxyz"

OrdTable ==
    [c \in {SubSeq(CharOrder, i, i) : i \in 1..Len(CharOrder)} |->
        CHOOSE i \in 1..Len(CharOrder) : SubSeq(CharOrder, i, i) = c]

ord(c) == OrdTable[c]

RECURSIVE LexLess(_, _)
LexLess(a, b) ==
    IF b = "" THEN FALSE
    ELSE IF a = "" THEN TRUE
    ELSE LET x == SubSeq(a, 1, 1)
             y == SubSeq(b, 1, 1)
         IN  IF x = y
             THEN LexLess(SubSeq(a, 2, Len(a)), SubSeq(b, 2, Len(b)))
             ELSE ord(x) < ord(y)

RECURSIVE SortByPath(_)
SortByPath(S) ==
    IF S = {} THEN <<>>
    ELSE LET m == CHOOSE x \in S : \A y \in S : y.path = x.path \/ LexLess(x.path, y.path)
         IN  <<m>> \o SortByPath(S \ {m})

\* one page of the sorted results `all`, strictly after the cursor
PageAfter(all, after, amount) ==
    LET Later(e) == LexLess(after, e.path)
        rest == SelectSeq(all, Later)
        n    == Min(Min(amount, MaxPage), Len(rest))
    IN  [results     |-> SubSeq(rest, 1, n),
         has_more    |-> Len(rest) > n,
         next_offset |-> IF n = 0 THEN "" ELSE rest[n].path]

\* the listing entry an object appears as under a prefix: itself, or the common
\* prefix that ends at the first delimiter after the prefix
EntryOf(o, prefix, delimiter) ==
    LET rest == SubSeq(o.path, Len(prefix) + 1, Len(o.path))
        cuts == {i \in 1..(Len(rest) - Len(delimiter) + 1) :
                    SubSeq(rest, i, i + Len(delimiter) - 1) = delimiter}
    IN  IF delimiter # "" /\ cuts # {}
        THEN LET i == CHOOSE c \in cuts : \A d \in cuts : c <= d
             IN  [path       |-> prefix \o SubSeq(rest, 1, i + Len(delimiter) - 1),
                  path_type  |-> "common_prefix",
                  size_bytes |-> 0,
                  mtime      |-> 0]
        ELSE [path       |-> o.path,
              path_type  |-> "object",
              size_bytes |-> o.size_bytes,
              mtime      |-> o.mtime]

Listing(objects, prefix, delimiter) ==
    SortByPath({EntryOf(o, prefix, delimiter) : o \in {x \in objects : startswith(x.path, prefix)}})

\* the store's answer to a request of the iterators
Serve(st, req) ==
    IF req.api = "list_objects"
    THEN PageAfter(Listing(st.objects[req.ref], req.prefix, req.delimiter), req.after, req.amount)
    ELSE PageAfter(st.changes, req.after, req.amount)

----------------------------------------------------------------------------
(* A generator run by its consumer against the store.                      *)

\* from a point that is not a suspension to the next yield or the return
RECURSIVE Advance(_, _, _)
Advance(g, st, reqs) ==
    CASE g.pc = "request" -> Advance(Receive(g, Serve(st, RequestOf(g))), st,
                                     Append(reqs, RequestOf(g)))
      [] g.pc = "iter"    -> Advance(ForLoop(g), st, reqs)
      [] OTHER            -> [gen |-> g, requests |-> reqs]

\* next(generator)
Pull(g, st, reqs) ==
    IF g.pc = "yielded" THEN Advance(AfterYield(g), st, reqs) ELSE Advance(g, st, reqs)

\* list(generator): every pull until the generator returns
RECURSIVE Drain(_, _, _, _)
Drain(g, st, reqs, out) ==
    LET r == Pull(g, st, reqs)
    IN  IF r.gen.pc = "yielded"
        THEN Drain(r.gen, st, r.requests, Append(out, Current(r.gen)))
        ELSE [items |-> out, requests |-> r.requests]

----------------------------------------------------------------------------
(* The filesystem adapter LakeFSFileSystem, in its two implementations:    *)
(* lakefs/client.py (over Client) and lakefs/fs.py (over the Bravado       *)
(* client). f is the adapter: [impl, client, repository, ref].             *)

\* datetime.datetime.fromtimestamp: seconds since the epoch to a datetime
fromtimestamp(ts) == [datetime_of |-> ts]

get_file_info(path, file_type, size_bytes, mtime_ts) ==
    [kind  |-> "FileInfo",
     path  |-> path,
     type  |-> file_type,
     size  |-> size_bytes,
     mtime |-> fromtimestamp(mtime_ts)]

\* the FileInfo that _list_entries yields for a result of the listing
EntryInfo(result) ==
    IF result.path_type = "object"
    THEN get_file_info(result.path, "File", result.size_bytes, result.mtime)
    ELSE get_file_info(result.path, "Directory", 0, 0)

\* the generator behind _list_entries: Client.list in client.py, the adapter's
\* own loop in fs.py
list_entries(f, path, delimiter, max_amount) ==
    IF f.impl = "client.py"
    THEN list(f.ref, path, delimiter, max_amount)
    ELSE NewGen("_list_entries", f.ref, path, delimiter, LISTING_PREFETCH_SIZE, max_amount)

StatRequest(f, path) == [api |-> "stat_object", ref |-> f.ref, path |-> path]

GetRequest(f, path) == [api |-> "get_object", ref |-> f.ref, path |-> path]

\* the store's answer to stat_object and get_object: the object, or the
\* not-found exception of the API client
ObjectAt(st, ref, path) ==
    LET found == {o \in st.objects[ref] : o.path = path}
    IN  IF found = {}
        THEN [raise |-> "NotFound"]
        ELSE [raise |-> "", object |-> CHOOSE o \in found : TRUE]

Raised(exc) == [kind |-> "raise", exc |-> exc]

\* client.py's _get_file_info without its try/except
client_get_file_info_NoExcept(st, f, path) ==
    IF endswith(path, DEFAULT_PATH_SEPARATOR)
    THEN LET r == Pull(list_entries(f, path, DEFAULT_PATH_SEPARATOR, 1), st, <<>>)
         IN  [ret      |-> IF r.gen.pc = "yielded"
                           THEN get_file_info(path, "NotFound", 0, 0)
                           ELSE get_file_info(path, "Directory", 0, 0),
              requests |-> r.requests]
    ELSE LET stat == ObjectAt(st, f.ref, path)
         IN  [ret      |-> IF stat.raise # ""
                           THEN Raised(stat.raise)
                           ELSE get_file_info(path, "File", stat.object.size_bytes,
                                              stat.object.mtime),
              requests |-> <<StatRequest(f, path)>>]

\* client.py, lines 244-256. next(generator, None) is one pull: the FileInfo
\* it returns is a true value, None is not.
client_get_file_info(st, f, path) ==
    IF endswith(path, DEFAULT_PATH_SEPARATOR)
    THEN LET r == Pull(list_entries(f, path, DEFAULT_PATH_SEPARATOR, 1), st, <<>>)
         IN  [ret      |-> IF r.gen.pc = "yielded"
                           THEN get_file_info(path, "NotFound", 0, 0)
                           ELSE get_file_info(path, "Directory", 0, 0),
              requests |-> r.requests]
    ELSE LET stat == ObjectAt(st, f.ref, path)
         IN  [ret      |-> IF stat.raise = "NotFound"
                           THEN get_file_info(path, "NotFound", 0, 0)
                           ELSE get_file_info(path, "File", stat.object.size_bytes,
                                              stat.object.mtime),
              requests |-> <<StatRequest(f, path)>>]

\* fs.py, lines 125-139
fs_get_file_info(st, f, path) ==
    IF endswith(path, "/")
    THEN LET r == Drain(list_entries(f, path, "/", 1), st, <<>>, <<>>)
         IN  [ret      |-> IF Len(r.items) = 0
                           THEN get_file_info(path, "NotFound", 0, 0)
                           ELSE get_file_info(path, "Directory", 0, 0),
              requests |-> r.requests]
    ELSE LET stat == ObjectAt(st, f.ref, path)
         IN  [ret      |-> IF stat.raise = "NotFound"
                           THEN get_file_info(path, "NotFound", 0, 0)
                           ELSE get_file_info(path, "File", stat.object.size_bytes,
                                              stat.object.mtime),
              requests |-> <<StatRequest(f, path)>>]

stat_one(st, f, path) ==
    IF f.impl = "client.py"
    THEN client_get_file_info(st, f, path)
    ELSE fs_get_file_info(st, f, path)

RECURSIVE stat_many(_, _, _)
stat_many(st, f, paths) ==
    IF paths = <<>>
    THEN [ret |-> <<>>, requests |-> <<>>]
    ELSE LET head == stat_one(st, f, Head(paths))
             rest == stat_many(st, f, Tail(paths))
         IN  [ret |-> <<head.ret>> \o rest.ret, requests |-> head.requests \o rest.requests]

\* LakeFSFileSystem.get_file_info: a str is one path, anything else is iterated
get_file_info_method(st, f, paths_or_selector) ==
    IF paths_or_selector.kind = "str"
    THEN stat_one(st, f, paths_or_selector.path)
    ELSE LET r == stat_many(st, f, paths_or_selector.paths)
         IN  [ret |-> [kind |-> "list", items |-> r.ret], requests |-> r.requests]

RECURSIVE MapEntryInfo(_)
MapEntryInfo(results) ==
    IF results = <<>> THEN <<>> ELSE <<EntryInfo(Head(results))>> \o MapEntryInfo(Tail(results))

\* LakeFSFileSystem.get_file_info_selector
get_file_info_selector(st, f, selector) ==
    LET path      == IF selector.kind = "FileSelector" THEN selector.base_dir ELSE selector.path
        delimiter == IF selector.kind = "FileSelector" /\ selector.recursive
                     THEN ""
                     ELSE DEFAULT_PATH_SEPARATOR
        r         == Drain(list_entries(f, path, delimiter, None), st, <<>>, <<>>)
    IN  [ret |-> [kind |-> "list", items |-> MapEntryInfo(r.items)], requests |-> r.requests]

\* LakeFSFileSystem.open_input_file: the whole object in a BufferReader
open_input_file(st, f, source) ==
    LET obj == ObjectAt(st, f.ref, source)
    IN  [ret      |-> IF obj.raise # ""
                      THEN Raised(obj.raise)
                      ELSE [kind |-> "BufferReader", buffer |-> obj.object],
         requests |-> <<GetRequest(f, source)>>]

Mutators == {"copy_file", "create_dir", "delete_dir", "delete_dir_contents",
             "delete_root_dir_contents", "delete_file", "move",
             "open_append_stream", "open_output_stream"}

\* a delete_file that deletes
MutatorBody_Deletes(op, st, f, path) ==
    [ret      |-> ReturnsNone,
     requests |-> IF op = "delete_file" THEN <<[api |-> "delete_object", ref |-> f.ref, path |-> path]>>
                  ELSE <<>>,
     store    |-> IF op = "delete_file"
                  THEN [st EXCEPT !.objects[f.ref] = {o \in @ : o.path # path}]
                  ELSE st,
     fs       |-> f]

\* the body of every mutating method is `pass`
MutatorBody(op, st, f, path) ==
    [ret      |-> ReturnsNone,
     requests |-> <<>>,
     store    |-> st,
     fs       |-> f]

----------------------------------------------------------------------------
(* The adapter in use: it is built over a store and then called, any       *)
(* method after any other. requests holds what the last call sent.         *)

ObjPaths == {"a/s/y", "a/x", "b"}

Objects == [path : ObjPaths, size_bytes : {0, 3}, mtime : {5}]

\* the contents a ref may have: at most one object per path
Contents == {S \in SUBSET Objects : \A x, y \in S : x.path = y.path => x = y}

StatPaths == {"a/", "a/s/", "a/x", "b"}

StatArgs ==
    {[kind |-> "str", path |-> p] : p \in StatPaths}
    \cup {[kind |-> "list", paths |-> <<"a/", "a/x">>]}

Selectors ==
    {[kind |-> "str", path |-> "a/"],
     [kind |-> "FileSelector", base_dir |-> "a/", recursive |-> FALSE],
     [kind |-> "FileSelector", base_dir |-> "", recursive |-> TRUE]}

OpenPaths == {"a/x", "b"}

MutatedPaths == {"a/x"}

InitFS ==
    /\ call = NoCall
    /\ ret = ReturnsNone
    /\ gen = [pc |-> "none"]
    /\ yielded = <<>>
    /\ requests = <<>>
    /\ \E S \in Contents :
         store = [objects |-> [r \in Refs |-> IF r = "source_ref" THEN S ELSE {}],
                  changes |-> <<>>]
    /\ \E impl \in {"client.py", "fs.py"} :
         fs = [impl |-> impl, client |-> "client", repository |-> "repo", ref |-> "source_ref"]
    /\ observed = NoCall

\* a read and its result: the first one is kept in observed
Read(c, r) ==
    /\ call' = c
    /\ ret' = r.ret
    /\ requests' = r.requests
    /\ observed' = IF observed = NoCall
                   THEN [op |-> "read", call |-> c, ret |-> r.ret, mutated |-> FALSE]
                   ELSE observed
    /\ UNCHANGED <<gen, yielded, store, fs>>

GetFileInfo ==
    \E arg \in StatArgs :
        Read([op |-> "get_file_info", arg |-> arg], get_file_info_method(store, fs, arg))

GetFileInfoSelector ==
    \E selector \in Selectors :
        Read([op |-> "get_file_info_selector", arg |-> selector],
             get_file_info_selector(store, fs, selector))

OpenInputFile ==
    \E source \in OpenPaths :
        Read([op |-> "open_input_file", arg |-> [kind |-> "str", path |-> source]],
             open_input_file(store, fs, source))

Mutate ==
    \E op \in Mutators, path \in MutatedPaths :
        LET r == MutatorBody(op, store, fs, path)
        IN  /\ call' = [op |-> op, arg |-> [kind |-> "str", path |-> path]]
            /\ ret' = r.ret
            /\ requests' = r.requests
            /\ store' = r.store
            /\ fs' = r.fs
            /\ observed' = IF observed = NoCall THEN observed
                           ELSE [observed EXCEPT !.mutated = TRUE]
            /\ UNCHANGED <<gen, yielded>>

NextFS ==
    \/ GetFileInfo
    \/ GetFileInfoSelector
    \/ OpenInputFile
    \/ Mutate

SpecFS == InitFS /\ [][NextFS]_vars

----------------------------------------------------------------------------
(* Claims about the adapter.                                               *)

IsStat(c) == c.op = "get_file_info" /\ c.arg.kind = "str"

\* the objects the store holds at the adapter's ref under a prefix
Under(prefix) == {o \in store.objects[fs.ref] : startswith(o.path, prefix)}

\* C3: for a path that ends with the separator, get_file_info returns NotFound when
\* the store lists no entry under the path and Directory when it lists one, in both
\* implementations of the adapter.
C3_DirectoryStat ==
    (IsStat(call) /\ endswith(call.arg.path, DEFAULT_PATH_SEPARATOR)) =>
        ret.type = IF Under(call.arg.path) = {} THEN "NotFound" ELSE "Directory"

\* C4: for a path that does not end with the separator, get_file_info sends one
\* stat_object and raises nothing: it returns NotFound exactly when the store has no
\* such object, and otherwise File with the object's size and modification time.
C4_FileStat ==
    (IsStat(call) /\ ~endswith(call.arg.path, DEFAULT_PATH_SEPARATOR)) =>
        LET found == {o \in store.objects[fs.ref] : o.path = call.arg.path}
        IN  /\ requests = <<StatRequest(fs, call.arg.path)>>
            /\ ret.kind = "FileInfo"
            /\ ret.path = call.arg.path
            /\ (ret.type = "NotFound") <=> (found = {})
            /\ \A o \in found :
                  /\ ret.type = "File"
                  /\ ret.size = o.size_bytes
                  /\ ret.mtime = fromtimestamp(o.mtime)

\* C4's case: the stat of an object that exists and holds no bytes is a File of size 0
C4_Witness ==
    /\ IsStat(call)
    /\ ~endswith(call.arg.path, DEFAULT_PATH_SEPARATOR)
    /\ \E o \in store.objects[fs.ref] : o.path = call.arg.path /\ o.size_bytes = 0
    /\ ret.type = "File"
    /\ ret.size = 0

\* C10: a mutating method returns None, sends nothing to the store and leaves the
\* store and the adapter as they were; a read repeated after mutating calls
\* returns what it returned before them.
C10_MutatorsAreNoOps ==
    /\ [](call.op \in Mutators => (ret = ReturnsNone /\ requests = <<>>))
    /\ [][call'.op \in Mutators => (store' = store /\ fs' = fs)]_vars
    /\ []((observed # NoCall /\ call = observed.call) => ret = observed.ret)

\* C10's case: a read made before a mutating call on the path it reads is made
\* again after it
C10_Witness ==
    /\ observed # NoCall
    /\ observed.mutated
    /\ call = observed.call
    /\ call.op = "open_input_file"
    /\ call.arg.path \in MutatedPaths
    /\ ret.kind = "BufferReader"

----------------------------------------------------------------------------
(* server.py: the webhook handlers. event is the JSON body of the request, *)
(* args its query parameters; the handler returns the errors it found and  *)
(* the HTTP status.                                                        *)

Response(errors) == [kind |-> "response", errors |-> errors,
                     status |-> IF errors = <<>> THEN 200 ELSE 400]

\* line 39: an allowed format is a named validator, or else an extension
Validates(f, p) == IF f = "delta_lake" THEN is_delta_lake(p) ELSE has_extension(f, p)

\* lines 44-53: the error a change adds, if any
FormatErrors(change, allowed_formats) ==
    IF change.type # "added" THEN <<>>
    ELSE IF is_hadoop_hidden(Path(change.path)) THEN <<>>
    ELSE IF \E i \in 1..Len(allowed_formats) : Validates(allowed_formats[i], Path(change.path))
    THEN <<>>
    ELSE <<[path |-> change.path, error |-> "file format not allowed"]>>

RECURSIVE FormatLoop(_, _)
FormatLoop(changes, allowed_formats) ==
    IF changes = <<>> THEN <<>>
    ELSE FormatErrors(Head(changes), allowed_formats) \o FormatLoop(Tail(changes), allowed_formats)

webhook_formats(st, event, args) ==
    LET changes == Drain(diff(event.source_ref, args.prefix, PREFETCH_CURSOR_SIZE),
                         st, <<>>, <<>>).items
    IN  Response(FormatLoop(changes, args.allow))

\* lines 174-179: the error a required field adds, if any
FieldErrors(field, commit_metadata, prefix) ==
    IF field \notin DOMAIN commit_metadata
    THEN <<[path |-> prefix, error |-> "missing commit metadata field: " \o field]>>
    ELSE IF commit_metadata[field] = ""
    THEN <<[path |-> prefix, error |-> "commit metadata field is empty: " \o field]>>
    ELSE <<>>

RECURSIVE FieldLoop(_, _, _)
FieldLoop(fields, commit_metadata, prefix) ==
    IF fields = <<>> THEN <<>>
    ELSE FieldErrors(Head(fields), commit_metadata, prefix)
            \o FieldLoop(Tail(fields), commit_metadata, prefix)

webhook_commit_metadata(st, event, args) ==
    LET has_changes_in_prefix ==
            Drain(diff_branch(event.source_ref, args.prefix, PREFETCH_CURSOR_SIZE, 1),
                  st, <<>>, <<>>).items # <<>>
    IN  IF ~has_changes_in_prefix
        THEN [kind |-> "response", errors |-> <<>>, status |-> 200]
        ELSE Response(FieldLoop(args.fields, event.commit_metadata, args.prefix))

\* lines 124-130: the directories of the added and changed paths, a directory
\* appended when it differs from the last one appended
RECURSIVE ModifiedDirs(_, _)
ModifiedDirs(changes, modified_dirs) ==
    IF changes = <<>> THEN modified_dirs
    ELSE LET change   == Head(changes)
             dir      == dir_name(Path(change.path)) \o "/"
         IN  IF change.type \notin {"added", "changed"}
             THEN ModifiedDirs(Tail(changes), modified_dirs)
             ELSE IF modified_dirs = <<>> \/ modified_dirs[Len(modified_dirs)] # dir
             THEN ModifiedDirs(Tail(changes), Append(modified_dirs, dir))
             ELSE ModifiedDirs(Tail(changes), modified_dirs)

\* Client.get_last_commit: the commit the branch points at
get_last_commit(st, branch) == "last_commit"

\* a data file whatever its size
is_data_file_AnySize(obj) == obj.path_type = "object"

\* lines 137-138: a listed object that holds data
is_data_file(obj) == obj.path_type = "object" /\ obj.size_bytes > 0

RECURSIVE DirtyErrors(_)
DirtyErrors(dirty_files) ==
    IF dirty_files = <<>> THEN <<>>
    ELSE <<[path |-> Head(dirty_files).path, error |-> "object is dirty"]>>
            \o DirtyErrors(Tail(dirty_files))

\* lines 135-143: the errors of one modified directory
DirtyCheck(st, from_ref, dir) ==
    LET before == Drain(list(get_last_commit(st, from_ref), dir, DEFAULT_PATH_SEPARATOR, None),
                        st, <<>>, <<>>).items
        after  == Drain(list(from_ref, dir, DEFAULT_PATH_SEPARATOR, None), st, <<>>, <<>>).items
        previous_data_files == {before[i].path : i \in {j \in 1..Len(before) : is_data_file(before[j])}}
        current_data_files  == SelectSeq(after, is_data_file)
        InPrevious(o)       == o.path \in previous_data_files
        dirty_files         == SelectSeq(current_data_files, InPrevious)
    IN  IF Len(dirty_files) = Len(current_data_files)
        THEN <<>>
        ELSE DirtyErrors(dirty_files)

RECURSIVE DirtyLoop(_, _, _)
DirtyLoop(st, from_ref, modified_dirs) ==
    IF modified_dirs = <<>> THEN <<>>
    ELSE DirtyCheck(st, from_ref, Head(modified_dirs))
            \o DirtyLoop(st, from_ref, Tail(modified_dirs))

\* the list of lines 124-130 for a request
modified_dirs_of(st, event, args) ==
    ModifiedDirs(Drain(diff_branch(event.branch_id, args.prefix, PREFETCH_CURSOR_SIZE, None),
                       st, <<>>, <<>>).items, <<>>)

webhook_dirty_check(st, event, args) ==
    Response(DirtyLoop(st, event.source_ref, modified_dirs_of(st, event, args)))

----------------------------------------------------------------------------
(* The handlers in use: the store holds the differences and the objects    *)
(* the event is about, and one request comes in.                           *)

\* the lists of differences over the given paths: one change per path at most,
\* in the store's order
ChangeLists(paths, types) ==
    LET All == [path : paths, type : types]
    IN  {SortByPath(S) : S \in {T \in SUBSET All : \A x, y \in T : x.path = y.path => x = y}}

TheEvent == [repository_id |-> "repo", branch_id |-> "main", source_ref |-> "source_ref"]

IdleHook ==
    /\ call = NoCall
    /\ ret = ReturnsNone
    /\ gen = [pc |-> "none"]
    /\ yielded = <<>>
    /\ requests = <<>>
    /\ fs = NoAdapter
    /\ observed = NoCall

\* longest allow list of a request to /webhooks/format
MaxAllowed == 2

FormatPaths == {"a/_delta_log/0001.json", "a/b.csv", "a/_SUCCESS", "a/c.PARQUET",
                "_SUCCESS", "b.csv"}

AllowedFormats == {"delta_lake", "csv", "parquet"}

InitFormats ==
    /\ IdleHook
    /\ \E cs \in ChangeLists(FormatPaths, {"added", "removed"}) :
         store = [objects |-> [r \in Refs |-> {}], changes |-> cs]

WebhookFormats ==
    /\ call = NoCall
    /\ \E prefix \in {"", "a/"}, allow \in SeqsUpTo(AllowedFormats, MaxAllowed) :
         LET args == [prefix |-> prefix, allow |-> allow]
         IN  /\ call' = [op |-> "webhook_formats", event |-> TheEvent, args |-> args]
             /\ ret' = webhook_formats(store, TheEvent, args)
    /\ UNCHANGED <<gen, yielded, requests, store, fs, observed>>

NextFormats == WebhookFormats

SpecFormats == InitFormats /\ [][NextFormats]_vars

\* the components of a path string as the specification defines them
SpecBaseName(v) == rpartition(v, DEFAULT_PATH_SEPARATOR)[3]

SpecDirName(v) == rpartition(v, DEFAULT_PATH_SEPARATOR)[1]

SpecExtension(v) ==
    LET r == rpartition(SpecBaseName(v), DEFAULT_EXTENSION_SEPARATOR)
    IN  IF r[2] = DEFAULT_EXTENSION_SEPARATOR THEN r[3] ELSE ""

SpecHidden(v) == startswith(SpecBaseName(v), "_")

SpecAllowed(f, v) ==
    IF f = "delta_lake"
    THEN endswith(SpecDirName(v), "_delta_log") /\ SpecExtension(v) \in {"json", "parquet"}
    ELSE lower(SpecExtension(v)) = f

RECURSIVE PathsOf(_)
PathsOf(items) == IF items = <<>> THEN <<>> ELSE <<Head(items).path>> \o PathsOf(Tail(items))

\* C6: of the changes the diff returns under the prefix, webhook_formats reports
\* exactly the added ones that are not hidden artifacts and satisfy none of the
\* allowed formats, and answers 400 exactly when it reports one.
C6_FormatAllowList ==
    (call.op = "webhook_formats") =>
        LET changes == Drain(diff(call.event.source_ref, call.args.prefix, PREFETCH_CURSOR_SIZE),
                             store, <<>>, <<>>).items
            Violates(c) ==
                /\ c.type = "added"
                /\ ~SpecHidden(c.path)
                /\ ~\E i \in 1..Len(call.args.allow) : SpecAllowed(call.args.allow[i], c.path)
        IN  /\ PathsOf(ret.errors) = PathsOf(SelectSeq(changes, Violates))
            /\ ret.status = IF ret.errors = <<>> THEN 200 ELSE 400

----------------------------------------------------------------------------

\* longest list of required fields of a request to /webhooks/commit_metadata
MaxFields == 2

MetaPaths == {"a/x", "a/y", "b"}

FieldNames == {"job_id", "owner"}

\* the commit metadata of an event: some of the fields, empty or not
MetaMaps == UNION {[D -> {"", "v"}] : D \in SUBSET FieldNames}

InitMeta ==
    /\ IdleHook
    /\ \E cs \in ChangeLists(MetaPaths, {"added"}) :
         store = [objects |-> [r \in Refs |-> {}], changes |-> cs]

WebhookCommitMetadata ==
    /\ call = NoCall
    /\ \E prefix \in {"", "a/", "a/x"}, metadata \in MetaMaps,
          fields \in SeqsUpTo(FieldNames, MaxFields) :
         LET args  == [prefix |-> prefix, fields |-> fields]
             event == [repository_id |-> "repo", source_ref |-> "source_ref",
                       commit_metadata |-> metadata]
         IN  /\ call' = [op |-> "webhook_commit_metadata", event |-> event, args |-> args]
             /\ ret' = webhook_commit_metadata(store, event, args)
    /\ UNCHANGED <<gen, yielded, requests, store, fs, observed>>

NextMeta == WebhookCommitMetadata

SpecMeta == InitMeta /\ [][NextMeta]_vars

\* the required fields, in the order of the request, that the metadata lacks or
\* holds empty
RECURSIVE Failing(_, _)
Failing(fields, metadata) ==
    IF fields = <<>> THEN <<>>
    ELSE (IF Head(fields) \notin DOMAIN metadata \/ metadata[Head(fields)] = ""
          THEN <<Head(fields)>> ELSE <<>>) \o Failing(Tail(fields), metadata)

\* C8: webhook_commit_metadata answers 200 without errors when the pending diff of
\* the branch has no change under the prefix; when it has one, it reports one
\* violation for each required field that the metadata lacks or holds empty, and
\* answers 400 exactly when it reports one.
C8_CommitMetadata ==
    (call.op = "webhook_commit_metadata") =>
        LET under   == {i \in 1..Len(store.changes) :
                           startswith(store.changes[i].path, call.args.prefix)}
            failing == Failing(call.args.fields, call.event.commit_metadata)
        IN  IF under = {}
            THEN ret.status = 200 /\ ret.errors = <<>>
            ELSE /\ Len(ret.errors) = Len(failing)
                 /\ \A i \in 1..Len(failing) :
                       /\ ret.errors[i].path = call.args.prefix
                       /\ endswith(ret.errors[i].error, ": " \o failing[i])
                 /\ ret.status = IF ret.errors = <<>> THEN 200 ELSE 400

----------------------------------------------------------------------------

\* the objects a ref may hold: three in a directory, two of them possibly empty,
\* and one at the root
DirtyObjects ==
    [path : {"dir/a.parquet", "dir/b.parquet"}, size_bytes : {0, 100}, mtime : {5}]
    \cup [path : {"dir/c.parquet", "r.parquet"}, size_bytes : {100}, mtime : {5}]

DirtyContents == {S \in SUBSET DirtyObjects : \A x, y \in S : x.path = y.path => x = y}

DirtyChangePaths == {"dir/b.parquet", "r.parquet"}

InitDirty ==
    /\ IdleHook
    /\ \E before \in DirtyContents, after \in DirtyContents,
          cs \in ChangeLists(DirtyChangePaths, {"added", "changed", "removed"}) :
         store = [objects |-> [r \in Refs |-> IF r = "last_commit" THEN before ELSE after],
                  changes |-> cs]

WebhookDirtyCheck ==
    /\ call = NoCall
    /\ \E prefix \in {"", "dir/"} :
         LET args == [prefix |-> prefix]
         IN  /\ call' = [op |-> "webhook_dirty_check", event |-> TheEvent, args |-> args]
             /\ ret' = webhook_dirty_check(store, TheEvent, args)
    /\ UNCHANGED <<gen, yielded, requests, store, fs, observed>>

NextDirty == WebhookDirtyCheck

SpecDirty == InitDirty /\ [][NextDirty]_vars

\* a path directly in a directory: under it, with no separator after it
DirectlyIn(path, dir) ==
    /\ startswith(path, dir)
    /\ ~HasSeparator(SubSeq(path, Len(dir) + 1, Len(path)))

\* the paths of the objects with data that a ref holds directly in a directory
DataFilesIn(objects, dir) ==
    {o.path : o \in {x \in objects : x.size_bytes > 0 /\ DirectlyIn(x.path, dir)}}

\* the paths reported as dirty in a directory
ReportedIn(errors, dir) ==
    {errors[i].path : i \in {j \in 1..Len(errors) :
                                /\ errors[j].error = "object is dirty"
                                /\ DirectlyIn(errors[j].path, dir)}}

----------------------------------------------------------------------------
(* lakefs/formats.py, has_extension on its own: a target extension and a   *)
(* path string are drawn, and the predicate has_extension returns is       *)
(* applied to the path.                                                    *)

\* longest target extension drawn for has_extension
MaxExt == 2

InitHasExtension ==
    /\ call = NoCall
    /\ ret = ReturnsNone
    /\ IdleRest

HasExtension ==
    /\ call = NoCall
    /\ \E e \in Strings(MaxExt), v \in Strings(MaxLen) :
        /\ call' = [op |-> "has_extension", extension |-> e, v |-> v]
        /\ ret' = [kind |-> "bool", value |-> has_extension(e, Path(v))]
    /\ UNCHANGED <<gen, yielded, requests, store, fs, observed>>

NextHasExtension == HasExtension

SpecHasExtension == InitHasExtension /\ [][NextHasExtension]_vars

\* C11: the predicate has_extension(e) returns is true of a path exactly when the
\* path's extension equals e once the case of both is ignored.
C11_CaseInsensitive ==
    (call.op = "has_extension") =>
        (ret.value <=> (lower(extension(Path(call.v))) = lower(call.extension)))

----------------------------------------------------------------------------
(* /webhooks/dirty_check over nested directories: the differences touch a  *)
(* directory, a directory inside it, and the root.                         *)

ModifiedPaths == {"d/a", "d/s/x", "d/z", "r"}

ModifiedObjects == [path : {"d/a", "d/z"}, size_bytes : {100}, mtime : {5}]

InitModifiedDirs ==
    /\ IdleHook
    /\ \E before \in SUBSET {o \in ModifiedObjects : o.path = "d/a"},
          after \in SUBSET ModifiedObjects,
          cs \in ChangeLists(ModifiedPaths, {"added", "changed", "removed"}) :
         store = [objects |-> [r \in Refs |-> IF r = "last_commit" THEN before ELSE after],
                  changes |-> cs]

WebhookDirtyCheckNested ==
    /\ call = NoCall
    /\ \E prefix \in {"", "d/"} :
         LET args == [prefix |-> prefix]
         IN  /\ call' = [op |-> "webhook_dirty_check", event |-> TheEvent, args |-> args]
             /\ ret' = webhook_dirty_check(store, TheEvent, args)
    /\ UNCHANGED <<gen, yielded, requests, store, fs, observed>>

NextModifiedDirs == WebhookDirtyCheckNested

SpecModifiedDirs == InitModifiedDirs /\ [][NextModifiedDirs]_vars

\* the directory a path is immediately in, named without a trailing separator: the
\* path before its last separator, the root ('') when it has none
ParentDirectory(path) ==
    LET cuts == {i \in 1..Len(path) : SubSeq(path, i, i) = DEFAULT_PATH_SEPARATOR}
    IN  IF cuts = {} THEN "" ELSE SubSeq(path, 1, Max(cuts) - 1)

\* the name of a listed directory, without the separator the handler appends
RECURSIVE DirectoryNames(_)
DirectoryNames(dirs) ==
    IF dirs = <<>> THEN <<>>
    ELSE <<SubSeq(Head(dirs), 1, Len(Head(dirs)) - 1)>> \o DirectoryNames(Tail(dirs))

\* the parent directories of the added and changed paths under a prefix, each once,
\* in the order they are first seen
RECURSIVE FirstSeenDirs(_, _, _)
FirstSeenDirs(changes, prefix, seen) ==
    IF changes = <<>> THEN seen
    ELSE LET change == Head(changes)
             dir    == ParentDirectory(change.path)
         IN  IF /\ startswith(change.path, prefix)
                /\ change.type \in {"added", "changed"}
                /\ \A i \in 1..Len(seen) : seen[i] # dir
             THEN FirstSeenDirs(Tail(changes), prefix, Append(seen, dir))
             ELSE FirstSeenDirs(Tail(changes), prefix, seen)

\* C12: the modified directories of webhook_dirty_check are the parent directories of
\* the added and changed paths under the prefix, each exactly once and in first-seen
\* order (so none for a directory with removals only), and no dirty file is reported
\* twice.
C12_ModifiedDirsOnce ==
    (call.op = "webhook_dirty_check") =>
        /\ DirectoryNames(modified_dirs_of(store, call.event, call.args))
              = FirstSeenDirs(store.changes, call.args.prefix, <<>>)
        /\ \A i, j \in 1..Len(ret.errors) : ret.errors[i].path = ret.errors[j].path => i = j

----------------------------------------------------------------------------
(* Client.diff consumed to its end against the store with a content: the   *)
(* store holds a sorted list of differences, some under the prefix, one    *)
(* possibly at the prefix itself.                                          *)

DiffPaths == {"a", "a/x", "a/y", "b"}

DiffPrefixes == {"", "a", "a/", "a/x"}

InitDiff ==
    /\ IdleHook
    /\ \E cs \in ChangeLists(DiffPaths, {"added", "removed"}) :
         store = [objects |-> [r \in Refs |-> {}], changes |-> cs]

\* list(client.diff(repo, from_ref, to_ref, prefix, prefetch_amount))
ConsumeDiff ==
    /\ call = NoCall
    /\ \E prefix \in DiffPrefixes, prefetch \in Prefetches \cup {MaxPage} :
         LET r == Drain(diff("source_ref", prefix, prefetch), store, <<>>, <<>>)
         IN  /\ call' = [op |-> "diff", prefix |-> prefix, prefetch_amount |-> prefetch]
             /\ ret' = [kind |-> "list", items |-> r.items]
             /\ requests' = r.requests
    /\ UNCHANGED <<gen, yielded, store, fs, observed>>

NextDiff == ConsumeDiff

SpecDiff == InitDiff /\ [][NextDiff]_vars

\* the differences of the store whose path starts with the prefix, in its order
ChangesUnder(changes, prefix) ==
    LET Starts(c) == startswith(c.path, prefix)
    IN  SelectSeq(changes, Starts)

\* C14: against a store that returns changes in ascending order of path, strictly
\* after the cursor, next_offset being the last path of the page, Client.diff consumed
\* to its end yields every change whose path starts with the prefix, once and in the
\* store's order, a change at the prefix itself included.
C14_DiffComplete ==
    (call.op = "diff") => ret.items = ChangesUnder(store.changes, call.prefix)

====
